---- MODULE Spec2Model ----
(***************************************************************************)
(* Anime Forever backend (src/server.js).  The file holds two variants of  *)
(* the server: the file-based one (lines 1-208, series kept in             *)
(* data/series.json, admin = the configured username) and the in-memory    *)
(* one (lines 209-555, series kept in a process array, admin = a flag in   *)
(* the token).  A behaviour of the model is a run of one variant, chosen   *)
(* in Init.                                                                *)
(*                                                                         *)
(* Node runs one handler at a time and a handler gives up control only at  *)
(* an await or when it returns.  The series handlers contain no await, so  *)
(* each handler body is one action.  A route with a multer middleware      *)
(* (upload.single, upload.any) first writes the uploaded files to the      *)
(* uploads directory, asynchronously, and calls the handler afterwards:    *)
(* that is an Upload action, which puts the request in `pending`, and a    *)
(* handler action, which takes it out.  Handlers of other requests run in  *)
(* between.  The text fields of a request are read by the handler only,    *)
(* so they are drawn when the handler runs.                                *)
(*                                                                         *)
(* Records keep the fields the handlers compare or act on: id, name and    *)
(* episodes of a series; id and src of an episode.                         *)
(***************************************************************************)
EXTENDS Integers, Sequences, FiniteSets, Bags, TLC

\* ------------------------------------------------------------- bounds
MaxSeries == 2
MaxEpisodes == 2
MaxPending == 1
MaxUploads == 2
MaxSuffix == 1
MaxSeriesId == 2
MaxUsers == 3
MaxCalls == 2
MaxTokens == 2

\* ---------------------------------------------------------- constants
ADMIN_USERNAME == "AnimeForever-admin"

VARIABLES
  variant,       \* "file" | "mem": which server of src/server.js runs
  series,        \* data/series.json (file) or the array `series` (mem)
  nextSeriesId,  \* the counter of the in-memory variant
  files,         \* names of the files present in the uploads directory
  pending,       \* bag of requests whose upload is done and whose handler has not run
  last,          \* the latest step: the call it belongs to and its response
  disk,          \* the text of data/series.json (file); nothing is persisted in mem
  seen,          \* the body of the latest response when it is the collection (GET)
  users,         \* data/users.json (file) or the array `users` (mem)
  calls,         \* register and login calls suspended at their await
  tokens         \* the tokens issued so far, each with the user record it was issued for

vars == <<variant, series, nextSeriesId, files, pending, last, disk, seen, users, calls, tokens>>

\* ------------------------------------------------------------- values

\* Date.now() + '-' + Math.round(Math.random()*1e9): a clock reading and a
\* random draw.  The program only compares these strings for equality; two
\* evaluations made in the same millisecond with the same draw are equal.
Suffixes == 0..MaxSuffix

\* A media source string: undefined (the field is absent from the request),
\* an external URL, or '/uploads/<name>'.
NoName == 0 - 1
Undefined == [kind |-> "undefined", name |-> NoName]
External == [kind |-> "url", name |-> NoName]
UploadsPath(f) == [kind |-> "uploads", name |-> f]
SrcInputs == {Undefined, External} \cup {UploadsPath(f) : f \in Suffixes}

\* The cover image of a series: `image || ''`, the empty string when the
\* request has none; otherwise a URL or the '/uploads/<name>' that
\* POST /api/upload returned.
NoImage == [kind |-> "empty", name |-> NoName]
ImageInputs == {Undefined, External} \cup {UploadsPath(f) : f \in Suffixes}

\* ep.src.startsWith('/uploads/') for a src that is a string
startsWithUploads(src) == src.kind = "uploads"

\* Series names of the requests.  The in-memory variant only tests a name
\* for emptiness, so two names equal after lower-casing are enough there;
\* the file-based variant compares names and gets a third one.
Names ==
  IF variant = "file" THEN {"Naruto", "naruto", "Bleach"} ELSE {"Naruto", "naruto"}
NameInputs == Names \cup {""}
toLowerCase(s) ==
  CASE s = "Naruto" -> "naruto"
    [] s = "Bleach" -> "bleach"
    [] s = "AnimeForever-admin" -> "animeforever-admin"
    [] OTHER -> s

\* Verified token payloads (jwt.verify succeeded in authMiddleware).  The
\* file-based variant signs {username} (line 57) and the in-memory one
\* {username, isAdmin} (lines 319, 345); isAdmin is FALSE where the payload
\* has no such field.  The administrator is the user named ADMIN_USERNAME,
\* resp. the account 'admin' of line 264.
Administrator ==
  IF variant = "file" THEN [username |-> ADMIN_USERNAME, isAdmin |-> FALSE]
  ELSE [username |-> "admin", isAdmin |-> TRUE]
Subjects == {Administrator, [username |-> "bob", isAdmin |-> FALSE]}
NoSubject == [username |-> "", isAdmin |-> FALSE]

\* isAdmin(req) of the file-based variant
isAdmin(user) == user.username = ADMIN_USERNAME
\* A gate that lets every verified caller through: what AdminOnlyDelete
\* must tell apart from adminMiddleware.
adminMiddlewareOpen(user) == user.username # ""
\* the test of adminMiddleware (in-memory variant)
adminMiddleware(user) == user.isAdmin

\* ------------------------------------------------------------ helpers
Range(s) == {s[i] : i \in 1..Len(s)}
Min(S) == CHOOSE m \in S : \A n \in S : m <= n
RemoveAt(s, i) == SubSeq(s, 1, i - 1) \o SubSeq(s, i + 1, Len(s))

\* Array.prototype.findIndex, 1-based, 0 when nothing matches
findIndexById(arr, id) ==
  LET I == {i \in 1..Len(arr) : arr[i].id = id}
  IN IF I = {} THEN 0 ELSE Min(I)

\* number of episodes in the whole collection
RECURSIVE EpisodeCount(_)
EpisodeCount(S) ==
  IF S = << >> THEN 0 ELSE Len(Head(S).episodes) + EpisodeCount(Tail(S))

Paths(reqFiles) == [i \in 1..Len(reqFiles) |-> reqFiles[i].filename]

\* req.files.forEach(file => fs.unlinkSync(file.path)): unlinkSync throws
\* ENOENT on a file that is not there, which ends the loop.
RECURSIVE unlinkEach(_, _, _)
unlinkEach(paths, fs, fx) ==
  IF paths = << >> THEN [files |-> fs, fx |-> fx, threw |-> FALSE]
  ELSE IF Head(paths) \notin fs THEN [files |-> fs, fx |-> fx, threw |-> TRUE]
  ELSE unlinkEach(Tail(paths), fs \ {Head(paths)}, Append(fx, "unlink"))

\* the same loop with each unlinkSync in its own try/catch (lines 437-443)
RECURSIVE unlinkEachCaught(_, _, _)
unlinkEachCaught(paths, fs, fx) ==
  IF paths = << >> THEN [files |-> fs, fx |-> fx]
  ELSE IF Head(paths) \notin fs THEN unlinkEachCaught(Tail(paths), fs, fx)
  ELSE unlinkEachCaught(Tail(paths), fs \ {Head(paths)}, Append(fx, "unlink"))

\* An early return that answers without touching the uploads: what
\* FailedCreateLeavesNothing must tell apart from cleanupUploads.
keepUploads(paths, fs, status) == [files |-> fs, fx |-> << >>, status |-> status]

\* The cleanup of an early return (lines 375-377, 385-387, 392-394, 481):
\* the plain loop, answered `status`; when the loop throws, the catch block
\* of the handler runs the caught loop and answers 500.
cleanupUploads(paths, fs, status) ==
  LET r == unlinkEach(paths, fs, << >>)
      c == unlinkEachCaught(paths, r.files, r.fx)
  IN IF r.threw
       THEN [files |-> c.files, fx |-> c.fx, status |-> 500]
       ELSE [files |-> r.files, fx |-> r.fx, status |-> status]

\* The latest step: the call, who made it (kept for the routes that test
\* the caller; NoSubject elsewhere) and what the handler answered and did
\* (status 0: an upload, the handler has not run yet).
Step(op, subject, r) ==
  [op |-> op, subject |-> subject, status |-> r.status, at |-> r.at, fx |-> r.fx]

\* What a handler leaves: the collection, the uploads directory,
\* the status of the response, the position in the collection of the series
\* it changed (0: none) and its effects in the order the code performs them.
Result(S, fs, status, at, fx) ==
  [series |-> S, files |-> fs, status |-> status, at |-> at, fx |-> fx]
NoResult == [status |-> 0, at |-> 0, fx |-> << >>]

Request(op, reqFiles) == [op |-> op, files |-> reqFiles]

\* number of uploaded files whose handler has not run yet
Staged(bag) ==
  LET n[R \in SUBSET BagToSet(bag)] ==
        IF R = {} THEN 0
        ELSE LET r == CHOOSE x \in R : TRUE
             IN bag[r] * Len(r.files) + n[R \ {r}]
  IN n[BagToSet(bag)]

\* A request as its handler receives it: the files multer stored for it.
\* A request without a file changes nothing before its handler runs, so it
\* is not kept in `pending`: its handler runs on NoFiles at any time.
NoFiles == << >>
Arrived(op) == {r \in BagToSet(pending) : r.op = op} \cup {Request(op, NoFiles)}
Taken(req) == IF req.files = NoFiles THEN pending ELSE pending (-) SetToBag({req})

\* what upload.single stores: one file under a generated name
SingleFile == {<<[fieldname |-> 0, filename |-> f]>> : f \in Suffixes}

RECURSIVE SeqsUpTo(_, _)
SeqsUpTo(S, n) ==
  IF n = 0 THEN {<< >>}
  ELSE LET R == SeqsUpTo(S, n - 1)
       IN R \cup {Append(s, x) : s \in {r \in R : Len(r) = n - 1}, x \in S}

\* ------------------------------------------------------- persistence
\* The text JSON.stringify writes, as its sequence of tokens: a bracket or
\* a brace, or a member of an object (its key with its value).  A member
\* whose value is undefined is left out.
Token(t, v) == [t |-> t, v |-> v]
Mark(c) == Token(c, NoName)

stringifyEpisode(e) ==
  <<Mark("{"), Token("id", e.id)>>
    \o (IF e.src = Undefined THEN << >> ELSE <<Token("src", e.src)>>)
    \o <<Mark("}")>>

RECURSIVE stringifyEpisodes(_)
stringifyEpisodes(eps) ==
  IF eps = << >> THEN << >>
  ELSE stringifyEpisode(Head(eps)) \o stringifyEpisodes(Tail(eps))

stringifySeries(s) ==
  <<Mark("{"), Token("id", s.id), Token("name", s.name), Token("image", s.image),
    Mark("episodes"), Mark("[")>>
    \o stringifyEpisodes(s.episodes) \o <<Mark("]"), Mark("}")>>

RECURSIVE stringifyAll(_)
stringifyAll(S) ==
  IF S = << >> THEN << >> ELSE stringifySeries(Head(S)) \o stringifyAll(Tail(S))

\* JSON.stringify(obj, null, 2) for the series collection
stringify(S) == <<Mark("[")>> \o stringifyAll(S) \o <<Mark("]")>>

\* fs.writeFileSync(file, JSON.stringify(obj, null, 2), 'utf8') run to its end
writeJson(S) == stringify(S)

Parsed(value, rest) == [ok |-> TRUE, value |-> value, rest |-> rest]
SyntaxError == [ok |-> FALSE, value |-> << >>, rest |-> << >>]
Starts(text, ts) ==
  Len(text) >= Len(ts) /\ \A i \in 1..Len(ts) : text[i].t = ts[i]
Drop(text, n) == SubSeq(text, n + 1, Len(text))

\* JSON.parse inside an array of episodes: its elements up to the bracket
RECURSIVE parseEpisodes(_, _)
parseEpisodes(text, acc) ==
  IF Starts(text, <<"]">>) THEN Parsed(acc, Drop(text, 1))
  ELSE IF Starts(text, <<"{", "id", "src", "}">>)
    THEN parseEpisodes(Drop(text, 4), Append(acc, [id |-> text[2].v, src |-> text[3].v]))
  ELSE IF Starts(text, <<"{", "id", "}">>)
    THEN parseEpisodes(Drop(text, 3), Append(acc, [id |-> text[2].v, src |-> Undefined]))
  ELSE SyntaxError

\* JSON.parse inside the array of series: its elements up to the bracket
RECURSIVE parseSeries(_, _)
parseSeries(text, acc) ==
  IF Starts(text, <<"]">>) THEN Parsed(acc, Drop(text, 1))
  ELSE IF Starts(text, <<"{", "id", "name", "image", "episodes", "[">>)
    THEN LET eps == parseEpisodes(Drop(text, 6), << >>)
         IN IF eps.ok /\ Starts(eps.rest, <<"}">>)
              THEN parseSeries(Drop(eps.rest, 1),
                               Append(acc, [id |-> text[2].v, name |-> text[3].v,
                                            image |-> text[4].v, episodes |-> eps.value]))
              ELSE SyntaxError
  ELSE SyntaxError

\* JSON.parse of the text of data/series.json
parse(text) ==
  IF ~Starts(text, <<"[">>) THEN SyntaxError
  ELSE LET r == parseSeries(Drop(text, 1), << >>)
       IN IF r.ok /\ Len(r.rest) = 0 THEN r ELSE SyntaxError

\* readJson(file, fallback) lines 26-32: the empty text reads as 'null',
\* which gives the fallback; so does a text JSON.parse throws on
readJson(text, fallback) ==
  IF Len(text) = 0 THEN fallback
  ELSE LET r == parse(text) IN IF r.ok THEN r.value ELSE fallback

\* A handler that answers without writing the file: what ReadSeesCommit
\* must tell apart from written.
notWritten(r, text) == text

\* the file after a handler: rewritten when the handler reached writeJson
written(r, text) ==
  IF \E i \in 1..Len(r.fx) : r.fx[i] = "write" THEN writeJson(r.series) ELSE text

\* the response of a call that does not answer with the collection
NoBody == <<[body |-> "none"]>>

\* bcrypt.hash and bcrypt.compare: a hash matches the password it was made of
hash(password) == <<"bcrypt", password>>
compare(password, h) == h = hash(password)

\* users = the account of line 264 (in-memory); data/users.json starts as []
\* (line 36).  A user record of the file-based variant has no isAdmin field:
\* FALSE stands for its absence.
InitialUsers ==
  IF variant = "file" THEN << >>
  ELSE <<[username |-> "admin", password |-> hash("admin"), isAdmin |-> TRUE]>>

\* what a call on the series routes leaves alone
Aside == seen' = NoBody /\ UNCHANGED <<users, calls, tokens>>

Init ==
  /\ variant \in {"file", "mem"}
  /\ series = << >>
  /\ nextSeriesId = 1
  /\ files = {}
  /\ pending = EmptyBag
  /\ last = Step("init", NoSubject, NoResult)
  /\ disk = IF variant = "file" THEN writeJson(<< >>) ELSE << >>
  /\ seen = NoBody
  /\ users = InitialUsers
  /\ calls = EmptyBag
  /\ tokens = {}

\* ================================================ file-based variant
\* Every handler reads data/series.json (readJson), changes the copy and
\* writes the whole file back (writeJson), with no await in between.

\* app.post('/api/series') lines 122-139
postSeriesFile(S, fs, name, image, id) ==
  IF name = "" THEN Result(S, fs, 400, 0, << >>)
  ELSE IF \E i \in 1..Len(S) : toLowerCase(S[i].name) = toLowerCase(name)
    THEN Result(S, fs, 400, 0, << >>)
  ELSE Result(Append(S, [id |-> id, name |-> name,
                         image |-> IF image = Undefined THEN NoImage ELSE image,
                         episodes |-> << >>]),
              fs, 200, Len(S) + 1, <<"push", "write">>)

\* The requests drawn here carry no image: a series starts without a cover
\* and PUT /api/series/:id/image installs one.
PostSeriesFile ==
  /\ variant = "file"
  /\ \E r \in {postSeriesFile(series, files, name, Undefined, id) :
                 name \in NameInputs, id \in Suffixes} :
       /\ Len(r.series) <= MaxSeries
       /\ series' = r.series
       /\ disk' = written(r, disk)
       /\ last' = Step("createSeries", NoSubject, r)
  /\ UNCHANGED <<variant, nextSeriesId, files, pending>>
  /\ Aside

\* upload.single('file') of app.post('/api/series/:id/episodes') line 144,
\* with the diskStorage of lines 39-46
UploadEpisodeFile ==
  /\ variant = "file"
  /\ BagCardinality(pending) < MaxPending
  /\ \E fs \in SingleFile :
       /\ files' = files \cup Range(Paths(fs))
       /\ pending' = pending (+) SetToBag({Request("addEpisode", fs)})
       /\ Staged(pending') <= MaxUploads
       /\ last' = Step("upload", NoSubject, NoResult)
  /\ UNCHANGED <<variant, series, nextSeriesId, disk>>
  /\ Aside

\* app.post('/api/series/:id/episodes') lines 144-165
postEpisodeFile(S, fs, reqFiles, id, src, epId) ==
  LET i == findIndexById(S, id)
      pushed(s) == [S EXCEPT ![i].episodes = Append(@, [id |-> epId, src |-> s])]
  IN
  IF i = 0 THEN Result(S, fs, 404, 0, << >>)
  ELSE IF reqFiles # NoFiles
    THEN Result(pushed(UploadsPath(reqFiles[1].filename)), fs, 200, i,
                <<"push", "write">>)
  ELSE IF src = Undefined THEN Result(S, fs, 400, 0, << >>)
  ELSE Result(pushed(src), fs, 200, i, <<"push", "write">>)

PostEpisodeFile ==
  /\ variant = "file"
  /\ \E req \in Arrived("addEpisode") :
     \E r \in {postEpisodeFile(series, files, req.files, id, src, epId) :
                 id \in Suffixes, src \in SrcInputs, epId \in Suffixes} :
       /\ EpisodeCount(r.series) <= MaxEpisodes
       /\ series' = r.series
       /\ disk' = written(r, disk)
       /\ pending' = Taken(req)
       /\ last' = Step("addEpisode", NoSubject, r)
  /\ UNCHANGED <<variant, nextSeriesId, files>>
  /\ Aside

\* app.delete('/api/series/:id/episodes/:epId') lines 180-191
deleteEpisodeFile(S, fs, user, id, epId) ==
  IF ~isAdmin(user) THEN Result(S, fs, 403, 0, << >>)
  ELSE LET i == findIndexById(S, id) IN
    IF i = 0 THEN Result(S, fs, 404, 0, << >>)
    ELSE LET idx == findIndexById(S[i].episodes, epId) IN
      IF idx = 0 THEN Result(S, fs, 404, 0, << >>)
      ELSE Result([S EXCEPT ![i].episodes = RemoveAt(@, idx)], fs, 200, i,
                  <<"splice", "write">>)

DeleteEpisodeFile ==
  /\ variant = "file"
  /\ \E user \in Subjects :
     \E r \in {deleteEpisodeFile(series, files, user, id, epId) :
                 id \in Suffixes, epId \in Suffixes} :
       /\ series' = r.series
       /\ disk' = written(r, disk)
       /\ files' = r.files
       /\ last' = Step("deleteEpisode", user, r)
  /\ UNCHANGED <<variant, nextSeriesId, pending>>
  /\ Aside

\* app.delete('/api/series/:id') lines 194-203
deleteSeriesFile(S, fs, user, id) ==
  IF ~isAdmin(user) THEN Result(S, fs, 403, 0, << >>)
  ELSE LET idx == findIndexById(S, id) IN
    IF idx = 0 THEN Result(S, fs, 404, 0, << >>)
    ELSE Result(RemoveAt(S, idx), fs, 200, idx, <<"splice", "write">>)

DeleteSeriesFile ==
  /\ variant = "file"
  /\ \E user \in Subjects :
     \E r \in {deleteSeriesFile(series, files, user, id) : id \in Suffixes} :
       /\ series' = r.series
       /\ disk' = written(r, disk)
       /\ files' = r.files
       /\ last' = Step("deleteSeries", user, r)
  /\ UNCHANGED <<variant, nextSeriesId, pending>>
  /\ Aside

\* ================================================= in-memory variant

\* What upload.any() (line 369, diskStorage of lines 226-236) can have stored
\* for one request: files under the field names 'episode_0', 'episode_1', ..
\* in this order, each under a generated file name.
MultipartFiles ==
  {fs \in SeqsUpTo([fieldname : 0..(MaxUploads - 1), filename : Suffixes], MaxUploads) :
     \A i \in 1..Len(fs) : fs[i].fieldname = i - 1}

UploadSeriesMem ==
  /\ variant = "mem"
  /\ BagCardinality(pending) < MaxPending
  /\ \E fs \in MultipartFiles \ {NoFiles} :
       /\ files' = files \cup Range(Paths(fs))
       /\ pending' = pending (+) SetToBag({Request("createSeries", fs)})
       /\ Staged(pending') <= MaxUploads
       /\ last' = Step("upload", NoSubject, NoResult)
  /\ UNCHANGED <<variant, series, nextSeriesId, disk>>
  /\ Aside

\* An episode spec of the `episodes` field: {title, hasFile, index, src}.
\* With hasFile the code reads index and never src; without, src only.
EpisodeSpecs ==
  [hasFile : {TRUE}, index : 0..(MaxUploads - 1), src : {Undefined}]
    \cup {[hasFile |-> TRUE, index |-> 0, src |-> External]}
    \cup [hasFile : {FALSE}, index : {0}, src : {Undefined, External}]

\* The `episodes` field: a string JSON.parse rejects, JSON that is no array
\* (null, an object, a number), or an array of episode specs.
Episodes(kind, specs) == [kind |-> kind, specs |-> specs]

\* The text fields of the body of POST /api/series.  The handler returns at
\* the first check that fails, so one body failing a check stands for every
\* body failing it.
BodyInputs ==
  {[pseudo |-> "bob", name |-> n, episodes |-> Episodes("array", s)] :
     n \in Names, s \in SeqsUpTo(EpisodeSpecs, MaxEpisodes)}
  \cup {[pseudo |-> "", name |-> "Naruto", episodes |-> Episodes("array", << >>)],
        [pseudo |-> "bob", name |-> "", episodes |-> Episodes("array", << >>)],
        [pseudo |-> "bob", name |-> "Naruto", episodes |-> Episodes("unparsable", << >>)],
        [pseudo |-> "bob", name |-> "Naruto", episodes |-> Episodes("notArray", << >>)]}

\* req.files.find(f => f.fieldname === `episode_${ep.index}`), 0 when none
findFile(reqFiles, index) ==
  LET I == {i \in 1..Len(reqFiles) : reqFiles[i].fieldname = index}
  IN IF I = {} THEN 0 ELSE Min(I)

\* The callback numbering the episodes from 0, as idx does: what
\* EpisodesFollowSpecs must tell apart from finalEpisode.
finalEpisodeFromZero(ep, idx, reqFiles, nid) ==
  IF ep.hasFile
    THEN [id |-> <<nid, idx - 1>>,
          src |-> UploadsPath(reqFiles[findFile(reqFiles, ep.index)].filename)]
    ELSE [id |-> <<nid, idx - 1>>, src |-> ep.src]

\* the callback of episodesData.map, lines 399-420: the episode built for the
\* spec at position idx (1-based here, idx + 1 in the code)
finalEpisode(ep, idx, reqFiles, nid) ==
  IF ep.hasFile
    THEN [id |-> <<nid, idx>>,
          src |-> UploadsPath(reqFiles[findFile(reqFiles, ep.index)].filename)]
    ELSE [id |-> <<nid, idx>>, src |-> ep.src]

\* `throw new Error('Fichier manquant ...')`, line 404
missingFile(specs, reqFiles) ==
  \E k \in 1..Len(specs) : specs[k].hasFile /\ findFile(reqFiles, specs[k].index) = 0

\* app.post('/api/series') lines 369-447.  A value that is no array makes
\* .length or .map throw; every throw lands in the catch block of line 433.
postSeriesMem(S, nid, fs, reqFiles, pseudo, name, episodes) ==
  LET paths == Paths(reqFiles)
      failed(c) == [series |-> S, nextSeriesId |-> nid, files |-> c.files,
                    status |-> c.status, at |-> 0, fx |-> c.fx]
      caught == unlinkEachCaught(paths, fs, << >>)
      thrown == [files |-> caught.files, fx |-> caught.fx, status |-> 500]
  IN
  IF pseudo = "" \/ name = "" THEN failed(cleanupUploads(paths, fs, 400))
  ELSE IF episodes.kind = "unparsable" THEN failed(cleanupUploads(paths, fs, 400))
  ELSE IF episodes.kind = "notArray" THEN failed(thrown)
  ELSE IF Len(episodes.specs) = 0 THEN failed(cleanupUploads(paths, fs, 400))
  ELSE IF missingFile(episodes.specs, reqFiles) THEN failed(thrown)
  ELSE
    [series |-> Append(S, [id |-> nid, name |-> name,
                           episodes |-> [k \in 1..Len(episodes.specs) |->
                              finalEpisode(episodes.specs[k], k, reqFiles, nid)]]),
     nextSeriesId |-> nid + 1, files |-> fs, status |-> 200,
     at |-> Len(S) + 1, fx |-> <<"push">>]

PostSeriesMem ==
  /\ variant = "mem"
  /\ \E req \in Arrived("createSeries") :
     \E r \in {postSeriesMem(series, nextSeriesId, files, req.files,
                             body.pseudo, body.name, body.episodes) :
                 body \in BodyInputs} :
       /\ Len(r.series) <= MaxSeries
       /\ EpisodeCount(r.series) <= MaxEpisodes
       /\ r.nextSeriesId <= MaxSeriesId + 1
       /\ series' = r.series
       /\ nextSeriesId' = r.nextSeriesId
       /\ files' = r.files
       /\ pending' = Taken(req)
       /\ last' = Step("createSeries", NoSubject, r)
  /\ UNCHANGED <<variant, disk>>
  /\ Aside

\* the forEach of lines 458-470 from episode k on (and lines 534-544 for one
\* episode): a src that is no string makes ep.src.startsWith throw, outside
\* the try, which ends the handler
RECURSIVE unlinkEpisodes(_, _, _, _)
unlinkEpisodes(eps, k, fs, fx) ==
  IF k > Len(eps) THEN [files |-> fs, fx |-> fx, threw |-> FALSE]
  ELSE IF eps[k].src = Undefined THEN [files |-> fs, fx |-> fx, threw |-> TRUE]
  ELSE IF startsWithUploads(eps[k].src) /\ eps[k].src.name \in fs
    THEN unlinkEpisodes(eps, k + 1, fs \ {eps[k].src.name}, Append(fx, "unlink"))
  ELSE unlinkEpisodes(eps, k + 1, fs, fx)

\* app.delete('/api/series/:id') lines 450-474
deleteSeriesMem(S, fs, user, id) ==
  IF ~adminMiddleware(user) THEN Result(S, fs, 403, 0, << >>)
  ELSE LET idx == findIndexById(S, id) IN
    IF idx = 0 THEN Result(S, fs, 404, 0, << >>)
    ELSE LET u == unlinkEpisodes(S[idx].episodes, 1, fs, << >>) IN
      IF u.threw THEN Result(S, u.files, 500, 0, u.fx)
      ELSE Result(RemoveAt(S, idx), u.files, 200, idx, Append(u.fx, "splice"))

\* String(nextSeriesId) and `${id}-${n}`: the ids a request can name
SeriesIdsMem == 1..MaxSeriesId
EpisodeIdsMem == SeriesIdsMem \X (1..MaxEpisodes)

DeleteSeriesMem ==
  /\ variant = "mem"
  /\ \E user \in Subjects :
     \E r \in {deleteSeriesMem(series, files, user, id) : id \in SeriesIdsMem} :
       /\ series' = r.series
       /\ files' = r.files
       /\ last' = Step("deleteSeries", user, r)
  /\ UNCHANGED <<variant, nextSeriesId, pending, disk>>
  /\ Aside

\* upload.single('video') of line 477
UploadEpisodeMem ==
  /\ variant = "mem"
  /\ BagCardinality(pending) < MaxPending
  /\ \E fs \in SingleFile :
       /\ files' = files \cup Range(Paths(fs))
       /\ pending' = pending (+) SetToBag({Request("addEpisode", fs)})
       /\ Staged(pending') <= MaxUploads
       /\ last' = Step("upload", NoSubject, NoResult)
  /\ UNCHANGED <<variant, series, nextSeriesId, disk>>
  /\ Aside

\* app.post('/api/series/:id/episodes') lines 477-517
postEpisodeMem(S, fs, reqFiles, id, url) ==
  LET i == findIndexById(S, id) IN
  IF i = 0 THEN
    LET c == cleanupUploads(Paths(reqFiles), fs, 404)
    IN Result(S, c.files, c.status, 0, c.fx)
  ELSE IF reqFiles = NoFiles /\ url = Undefined THEN Result(S, fs, 400, 0, << >>)
  ELSE
    LET src == IF reqFiles # NoFiles THEN UploadsPath(reqFiles[1].filename) ELSE url
        epNumber == Len(S[i].episodes) + 1
    IN Result([S EXCEPT ![i].episodes =
                 Append(@, [id |-> <<S[i].id, epNumber>>, src |-> src])],
              fs, 200, i, <<"push">>)

PostEpisodeMem ==
  /\ variant = "mem"
  /\ \E req \in Arrived("addEpisode") :
     \E r \in {postEpisodeMem(series, files, req.files, id, url) :
                 id \in SeriesIdsMem, url \in SrcInputs} :
       /\ EpisodeCount(r.series) <= MaxEpisodes
       /\ series' = r.series
       /\ files' = r.files
       /\ pending' = Taken(req)
       /\ last' = Step("addEpisode", NoSubject, r)
  /\ UNCHANGED <<variant, nextSeriesId, disk>>
  /\ Aside

\* app.delete('/api/series/:seriesId/episodes/:episodeId') lines 520-548
deleteEpisodeMem(S, fs, user, seriesId, episodeId) ==
  IF ~adminMiddleware(user) THEN Result(S, fs, 403, 0, << >>)
  ELSE LET i == findIndexById(S, seriesId) IN
    IF i = 0 THEN Result(S, fs, 404, 0, << >>)
    ELSE LET epIdx == findIndexById(S[i].episodes, episodeId) IN
      IF epIdx = 0 THEN Result(S, fs, 404, 0, << >>)
      ELSE LET u == unlinkEpisodes(<<S[i].episodes[epIdx]>>, 1, fs, << >>) IN
        IF u.threw THEN Result(S, fs, 500, 0, << >>)
        ELSE Result([S EXCEPT ![i].episodes = RemoveAt(@, epIdx)], u.files, 200, i,
                    Append(u.fx, "splice"))

DeleteEpisodeMem ==
  /\ variant = "mem"
  /\ \E user \in Subjects :
     \E r \in {deleteEpisodeMem(series, files, user, seriesId, episodeId) :
                 seriesId \in SeriesIdsMem, episodeId \in EpisodeIdsMem} :
       /\ series' = r.series
       /\ files' = r.files
       /\ last' = Step("deleteEpisode", user, r)
  /\ UNCHANGED <<variant, nextSeriesId, pending, disk>>
  /\ Aside

Next ==
  \/ PostSeriesFile
  \/ UploadEpisodeFile
  \/ PostEpisodeFile
  \/ DeleteEpisodeFile
  \/ DeleteSeriesFile
  \/ UploadSeriesMem
  \/ PostSeriesMem
  \/ DeleteSeriesMem
  \/ UploadEpisodeMem
  \/ PostEpisodeMem
  \/ DeleteEpisodeMem

Spec == Init /\ [][Next]_vars
\* ======================================================= crash and restart

\* What the handlers of the file-based variant that reach writeJson (lines
\* 137, 155, 162, 189, 201) can be writing in the current state.
Writes ==
  {r \in {postSeriesFile(series, files, name, Undefined, id) :
            name \in NameInputs, id \in Suffixes}
         \cup {postEpisodeFile(series, files, req.files, id, src, epId) :
                 req \in Arrived("addEpisode"), id \in Suffixes,
                 src \in SrcInputs, epId \in Suffixes}
         \cup {deleteEpisodeFile(series, files, Administrator, id, epId) :
                 id \in Suffixes, epId \in Suffixes}
         \cup {deleteSeriesFile(series, files, Administrator, id) : id \in Suffixes} :
     /\ written(r, << >>) # << >>
     /\ Len(r.series) <= MaxSeries
     /\ EpisodeCount(r.series) <= MaxEpisodes}

\* The process dies inside fs.writeFileSync (line 34).  writeFileSync opens
\* the file with flag 'w', which empties it, and then writes the text: the
\* file is left with the part of the text written so far.  The requests in
\* flight die with the process; the next process loads the file with
\* readJson in every handler.
CrashInWrite ==
  /\ variant = "file"
  /\ \E r \in Writes :
     \E n \in 0..(Len(writeJson(r.series)) - 1) :
       /\ disk' = SubSeq(writeJson(r.series), 1, n)
       /\ series' = readJson(disk', << >>)
  /\ pending' = EmptyBag
  /\ last' = Step("crash", NoSubject, NoResult)
  /\ seen' = NoBody
  /\ UNCHANGED <<variant, nextSeriesId, files, users, calls, tokens>>

\* The file-based server stops and starts again: lines 36-37 leave an
\* existing data/series.json as it is, and the handlers load it (readJson).
RestartFile ==
  /\ variant = "file"
  /\ series' = readJson(disk, << >>)
  /\ pending' = EmptyBag
  /\ last' = Step("restart", NoSubject, NoResult)
  /\ seen' = NoBody
  /\ UNCHANGED <<variant, nextSeriesId, files, disk, users, calls, tokens>>

\* The in-memory server stops and starts again: lines 263-267 run again.
RestartMem ==
  /\ variant = "mem"
  /\ series' = << >>
  /\ nextSeriesId' = 1
  /\ pending' = EmptyBag
  /\ last' = Step("restart", NoSubject, NoResult)
  /\ seen' = NoBody
  /\ calls' = EmptyBag
  /\ users' = InitialUsers
  /\ UNCHANGED <<variant, files, disk, tokens>>

NextStore ==
  \/ PostSeriesFile
  \/ PostEpisodeFile
  \/ DeleteEpisodeFile
  \/ DeleteSeriesFile
  \/ CrashInWrite
  \/ RestartFile
  \/ PostSeriesMem
  \/ PostEpisodeMem
  \/ RestartMem

SpecStore == Init /\ [][NextStore]_vars

\* ======================================================== cover and reads

\* app.post('/api/upload') lines 109-114: upload.single('file') stores the
\* file and the handler answers its '/uploads/<name>'
UploadFile ==
  /\ variant = "file"
  /\ \E f \in Suffixes : files' = files \cup {f}
  /\ last' = Step("upload", NoSubject, NoResult)
  /\ UNCHANGED <<variant, series, nextSeriesId, pending, disk>>
  /\ Aside

\* app.put('/api/series/:id/image') lines 168-177
putImageFile(S, fs, id, image) ==
  LET i == findIndexById(S, id) IN
  IF i = 0 THEN Result(S, fs, 404, 0, << >>)
  ELSE Result([S EXCEPT ![i].image = IF image = Undefined THEN NoImage ELSE image],
              fs, 200, i, <<"write">>)

PutImageFile ==
  /\ variant = "file"
  /\ \E r \in {putImageFile(series, files, id, image) :
                 id \in Suffixes, image \in ImageInputs} :
       /\ series' = r.series
       /\ disk' = written(r, disk)
       /\ files' = r.files
       /\ last' = Step("updateImage", NoSubject, r)
  /\ UNCHANGED <<variant, nextSeriesId, pending>>
  /\ Aside

\* app.get('/api/series') lines 117-120
GetSeriesFile ==
  /\ variant = "file"
  /\ seen' = readJson(disk, << >>)
  /\ last' = Step("listSeries", NoSubject, [status |-> 200, at |-> 0, fx |-> << >>])
  /\ UNCHANGED <<variant, series, nextSeriesId, files, pending, disk, users, calls, tokens>>

\* app.get('/api/series') lines 358-360
GetSeriesMem ==
  /\ variant = "mem"
  /\ seen' = series
  /\ last' = Step("listSeries", NoSubject, [status |-> 200, at |-> 0, fx |-> << >>])
  /\ UNCHANGED <<variant, series, nextSeriesId, files, pending, disk, users, calls, tokens>>

NextRead ==
  \/ PostSeriesFile
  \/ UploadFile
  \/ PutImageFile
  \/ DeleteSeriesFile
  \/ GetSeriesFile
  \/ PostSeriesMem
  \/ PostEpisodeMem
  \/ DeleteEpisodeMem
  \/ DeleteSeriesMem
  \/ GetSeriesMem

SpecRead == Init /\ [][NextRead]_vars

\* ======================================================= register and login
\* Both handlers are async and give up control once, at their await of
\* bcrypt: the part before it and the part after it are one action each, and
\* a call between the two is kept in `calls` with its local variables.

\* req.body.username and req.body.password ("": the field is missing)
Usernames ==
  IF variant = "file" THEN {ADMIN_USERNAME, "animeforever-admin", "bob"}
  ELSE {"admin", "bob", "al"}
Passwords == {"secret1", "hunter22"}
UsernameInputs == Usernames \cup {""}
PasswordInputs == Passwords \cup {"", "pw"}

\* a call suspended at its await: `local` is the handler's `users` (register,
\* file-based) or its `user` (login), empty otherwise
Call(op, username, password, local) ==
  [op |-> op, username |-> username, password |-> password, local |-> local]
Suspended(op) == {c \in BagToSet(calls) : c.op = op}

\* jwt.sign: the payload, and the user record the token was issued for
generateToken(user) ==
  [username |-> user.username, isAdmin |-> FALSE, for |-> user]
signMem(user) ==
  [username |-> user.username, isAdmin |-> user.isAdmin, for |-> user]

Answer(status) == [status |-> status, at |-> 0, fx |-> << >>]

\* users.find(u => u.username.toLowerCase() === username.toLowerCase())
findUserFile(U, username) ==
  LET I == {i \in 1..Len(U) : toLowerCase(U[i].username) = toLowerCase(username)}
  IN IF I = {} THEN 0 ELSE Min(I)
\* users.find(u => u.username === username)
findUserMem(U, username) ==
  LET I == {i \in 1..Len(U) : U[i].username = username}
  IN IF I = {} THEN 0 ELSE Min(I)

\* app.post('/api/register') lines 78-85, up to `await bcrypt.hash`
RegisterFile ==
  /\ variant = "file"
  /\ \E username \in UsernameInputs, password \in PasswordInputs :
       IF username = "" \/ password = "" \/ findUserFile(users, username) # 0
         THEN /\ last' = Step("register", NoSubject, Answer(400))
              /\ UNCHANGED calls
         ELSE /\ BagCardinality(calls) < MaxCalls
              /\ calls' = calls (+) SetToBag({Call("register", username, password, users)})
              /\ last' = Step("register", NoSubject, Answer(0))
  /\ UNCHANGED <<variant, series, nextSeriesId, files, pending, disk, seen, users, tokens>>

\* app.post('/api/register') lines 86-89, after the await: the local array
\* read at line 81 gets the new user and is written to data/users.json
RegisteredFile ==
  /\ variant = "file"
  /\ \E c \in Suspended("register") :
       LET user == [username |-> c.username, password |-> hash(c.password),
                    isAdmin |-> FALSE]
       IN /\ users' = Append(c.local, user)
          /\ Len(users') <= MaxUsers
          /\ tokens' = tokens \cup {generateToken(user)}
          /\ Cardinality(tokens') <= MaxTokens
          /\ calls' = calls (-) SetToBag({c})
          /\ last' = Step("registered", NoSubject, Answer(200))
  /\ UNCHANGED <<variant, series, nextSeriesId, files, pending, disk, seen>>

\* app.post('/api/login') lines 92-98, up to `await bcrypt.compare`
LoginFile ==
  /\ variant = "file"
  /\ \E username \in UsernameInputs, password \in PasswordInputs :
       IF username = "" \/ password = "" \/ findUserFile(users, username) = 0
         THEN /\ last' = Step("login", NoSubject, Answer(400))
              /\ UNCHANGED calls
         ELSE /\ BagCardinality(calls) < MaxCalls
              /\ calls' = calls (+) SetToBag({Call("login", username, password,
                                                   <<users[findUserFile(users, username)]>>)})
              /\ last' = Step("login", NoSubject, Answer(0))
  /\ UNCHANGED <<variant, series, nextSeriesId, files, pending, disk, seen, users, tokens>>

\* app.post('/api/login') lines 99-101, after the await
LoggedInFile ==
  /\ variant = "file"
  /\ \E c \in Suspended("login") :
       /\ calls' = calls (-) SetToBag({c})
       /\ IF compare(c.password, c.local[1].password)
            THEN /\ tokens' = tokens \cup {generateToken(c.local[1])}
                 /\ Cardinality(tokens') <= MaxTokens
                 /\ last' = Step("loggedIn", NoSubject, Answer(200))
            ELSE /\ last' = Step("loggedIn", NoSubject, Answer(400))
                 /\ UNCHANGED tokens
  /\ UNCHANGED <<variant, series, nextSeriesId, files, pending, disk, seen, users>>

\* app.post('/api/register') lines 295-315, up to `await bcrypt.hash`
RegisterMem ==
  /\ variant = "mem"
  /\ \E username \in UsernameInputs, password \in PasswordInputs :
       IF \/ username = "" \/ password = ""
          \/ Len(username) < 3
          \/ Len(password) < 6
          \/ findUserMem(users, username) # 0
         THEN /\ last' = Step("register", NoSubject, Answer(400))
              /\ UNCHANGED calls
         ELSE /\ BagCardinality(calls) < MaxCalls
              /\ calls' = calls (+) SetToBag({Call("register", username, password, << >>)})
              /\ last' = Step("register", NoSubject, Answer(0))
  /\ UNCHANGED <<variant, series, nextSeriesId, files, pending, disk, seen, users, tokens>>

\* app.post('/api/register') lines 316-320, after the await: the new user is
\* pushed to the shared array
RegisteredMem ==
  /\ variant = "mem"
  /\ \E c \in Suspended("register") :
       LET newUser == [username |-> c.username, password |-> hash(c.password),
                       isAdmin |-> FALSE]
       IN /\ users' = Append(users, newUser)
          /\ Len(users') <= MaxUsers
          /\ tokens' = tokens \cup {signMem(newUser)}
          /\ Cardinality(tokens') <= MaxTokens
          /\ calls' = calls (-) SetToBag({c})
          /\ last' = Step("registered", NoSubject, Answer(200))
  /\ UNCHANGED <<variant, series, nextSeriesId, files, pending, disk, seen>>

\* app.post('/api/login') lines 327-340, up to `await bcrypt.compare`
LoginMem ==
  /\ variant = "mem"
  /\ \E username \in UsernameInputs, password \in PasswordInputs :
       IF username = "" \/ password = ""
         THEN /\ last' = Step("login", NoSubject, Answer(400))
              /\ UNCHANGED calls
       ELSE IF findUserMem(users, username) = 0
         THEN /\ last' = Step("login", NoSubject, Answer(401))
              /\ UNCHANGED calls
         ELSE /\ BagCardinality(calls) < MaxCalls
              /\ calls' = calls (+) SetToBag({Call("login", username, password,
                                                   <<users[findUserMem(users, username)]>>)})
              /\ last' = Step("login", NoSubject, Answer(0))
  /\ UNCHANGED <<variant, series, nextSeriesId, files, pending, disk, seen, users, tokens>>

\* app.post('/api/login') lines 341-346, after the await
LoggedInMem ==
  /\ variant = "mem"
  /\ \E c \in Suspended("login") :
       /\ calls' = calls (-) SetToBag({c})
       /\ IF compare(c.password, c.local[1].password)
            THEN /\ tokens' = tokens \cup {signMem(c.local[1])}
                 /\ Cardinality(tokens') <= MaxTokens
                 /\ last' = Step("loggedIn", NoSubject, Answer(200))
            ELSE /\ last' = Step("loggedIn", NoSubject, Answer(401))
                 /\ UNCHANGED tokens
  /\ UNCHANGED <<variant, series, nextSeriesId, files, pending, disk, seen, users>>

NextUsers ==
  \/ RegisterFile
  \/ RegisteredFile
  \/ LoginFile
  \/ LoggedInFile
  \/ RegisterMem
  \/ RegisteredMem
  \/ LoginMem
  \/ LoggedInMem

SpecUsers == Init /\ [][NextUsers]_vars

\* ============================================================ properties

Deletes == {"deleteEpisode", "deleteSeries"}

\* some episode of the collection S has '/uploads/<f>' as its src
Referenced(S, f) ==
  \E i \in 1..Len(S) : \E k \in 1..Len(S[i].episodes) :
    S[i].episodes[k].src = UploadsPath(f)

\* the request whose handler ran in this step had uploaded the files of req
Consumed(req) == pending' # pending /\ pending' = pending (-) SetToBag({req})

\* C1: the collection never holds two series whose names are equal after
\* lower-casing, whatever create-series calls were made and in what order.
NameUniqueness ==
  \A i, j \in 1..Len(series) :
    i # j => toLowerCase(series[i].name) # toLowerCase(series[j].name)

\* C2: in the in-memory variant (create with episodes, add-episode,
\* delete-episode), no two episodes of one series ever have the same id.
EpisodeIdUniqueness ==
  variant = "mem" =>
    \A i \in 1..Len(series) : \A k, l \in 1..Len(series[i].episodes) :
      k # l => series[i].episodes[k].id # series[i].episodes[l].id

\* C3: an add-episode, delete-episode or delete-series call never removes
\* from the uploads directory a file that a record remaining in the
\* collection still has as its '/uploads/' src.
BlobKeptWhileReferenced ==
  [][last'.op \in {"addEpisode", "deleteEpisode", "deleteSeries"}
       => \A f \in files \ files' : ~Referenced(series', f)]_vars

\* C4: an add-episode call that comes with an uploaded file and does not add
\* the episode (with a file the only reason is that the series does not
\* exist) answers 404, leaves the collection as it was, and leaves no
\* uploaded file behind.
AddEpisodeToMissingSeries ==
  [][\A req \in BagToSet(pending) :
       (last'.op = "addEpisode" /\ Consumed(req) /\ last'.status # 200)
         => /\ last'.status = 404
            /\ series' = series
            /\ Range(Paths(req.files)) \cap files' = {}]_vars

\* C5: a delete-series call answered 200 removes the series record, leaves
\* none of the '/uploads/' files of its episodes in the uploads directory,
\* and removes no other file (an episode with an external URL deletes none).
DeleteSeriesReleasesBlobs ==
  [][(last'.op = "deleteSeries" /\ last'.status = 200)
       => LET eps == series[last'.at].episodes
              blobs == {eps[k].src.name : k \in {n \in 1..Len(eps) : startsWithUploads(eps[n].src)}}
          IN /\ series' = RemoveAt(series, last'.at)
             /\ blobs \cap files' = {}
             /\ files \ files' \subseteq blobs]_vars

\* C6: a delete-series or delete-episode call by a caller who is not the
\* administrator is answered 403 and changes neither the collection nor the
\* uploads directory; a step that removes a series or an episode is a delete
\* call of the administrator.
AdminOnlyDelete ==
  [][/\ (last'.op \in Deletes /\ last'.subject # Administrator)
          => (last'.status = 403 /\ series' = series /\ files' = files)
     /\ (Len(series') < Len(series) \/ EpisodeCount(series') < EpisodeCount(series))
          => (last'.op \in Deletes /\ last'.subject = Administrator /\ last'.status = 200)]_vars

\* C6, its case: a non-administrator's delete call was refused while there
\* was an episode and an uploaded file to remove.
RefusedDelete ==
  /\ last.op \in Deletes
  /\ last.subject # Administrator
  /\ last.status = 403
  /\ EpisodeCount(series) > 0
  /\ files # {}

\* C7: two add-episode calls on the same series that run one right after the
\* other and both succeed leave the series with the episodes it had plus
\* two, and the two new episodes have different ids.
AddEpisodeTwice ==
  [][(/\ last.op = "addEpisode" /\ last.status = 200
      /\ last'.op = "addEpisode" /\ last'.status = 200
      /\ last'.at = last.at)
       => LET before == series[last.at].episodes
              after == series'[last.at].episodes
          IN /\ Len(after) = Len(before) + 1
             /\ SubSeq(after, 1, Len(before)) = before
             /\ after[Len(after)].id # before[Len(before)].id]_vars

\* C8: a create-series call that is not answered 200 leaves the collection
\* and the id counter as they were and leaves none of the files uploaded
\* for it in the uploads directory.
FailedCreateLeavesNothing ==
  [][(last'.op = "createSeries" /\ last'.status # 200)
       => /\ series' = series
          /\ nextSeriesId' = nextSeriesId
          /\ \A req \in BagToSet(pending) :
               Consumed(req) => Range(Paths(req.files)) \cap files' = {}]_vars

\* C8, its case: a create-series call with uploaded files failed and its
\* files were unlinked.
FailedCreateWithUploads ==
  /\ variant = "mem"
  /\ last.op = "createSeries"
  /\ last.status \in {400, 500}
  /\ Len(last.fx) = MaxUploads
  /\ \A i \in 1..Len(last.fx) : last.fx[i] = "unlink"

\* an episode spec that resolves to exactly one media source: the uploaded
\* file it names, or an external URL, and not both
ExactlyOneSource(ep, reqFiles) ==
  (ep.hasFile /\ findFile(reqFiles, ep.index) # 0) # (ep.src # Undefined)

\* C9: whenever create-series (in-memory variant) commits a series, every
\* request that leads to this commit has only episode specs that resolve to
\* exactly one media source; a spec with neither or with both is never
\* committed.
CreateCommitsOneSourceEach ==
  [][(variant = "mem" /\ last'.op = "createSeries" /\ last'.status = 200)
       => \A req \in Arrived("createSeries"), body \in BodyInputs :
            (/\ pending' = Taken(req)
             /\ postSeriesMem(series, nextSeriesId, files, req.files,
                              body.pseudo, body.name, body.episodes).series = series')
              => \A k \in 1..Len(body.episodes.specs) :
                   ExactlyOneSource(body.episodes.specs[k], req.files)]_vars

\* C10: in a delete-episode or delete-series call every unlink of a file
\* comes after the removal of the record from the collection.
UnlinkAfterRemoval ==
  last.op \in Deletes =>
    \A i \in 1..Len(last.fx) :
      last.fx[i] = "unlink" => \E j \in 1..(i - 1) : last.fx[j] = "splice"

IsPrefix(p, text) == Len(p) <= Len(text) /\ SubSeq(text, 1, Len(p)) = p

\* C11: after a crash inside a write of the series collection, the next
\* load gives the complete collection of before the write or the complete
\* collection that was being written.
CrashLeavesOldOrNew ==
  [][last'.op = "crash"
       => \A r \in Writes :
            IsPrefix(disk', writeJson(r.series))
              => readJson(disk', << >>) \in {series, r.series}]_vars

\* the text of data/series.json is no JSON text of a collection
Corrupt(text) == ~parse(text).ok

\* C12: while data/series.json is unreadable or malformed, a call that loads
\* it is not answered 200 and leaves the file as it is.
CorruptStoreFailsClosed ==
  [][(variant = "file" /\ Corrupt(disk)
        /\ last'.op \in {"createSeries", "addEpisode", "deleteEpisode", "deleteSeries"})
       => (last'.status # 200 /\ disk' = disk)]_vars

\* C13: a restart gives back the collection of before the restart: the same
\* series and episodes, with the same ids and fields, in the same order.
RestartKeepsCollection ==
  [][last'.op = "restart" => series' = series]_vars

\* C14: a create-series call answered 200 gives the new series an id that
\* no series of the collection has (the claim, for the series created before
\* that are still there).
FreshSeriesId ==
  [][(last'.op = "createSeries" /\ last'.status = 200)
       => \A i \in 1..Len(series) : series[i].id # series'[last'.at].id]_vars

\* C15: when create-series (in-memory variant) commits a series for a
\* request, the series has one episode per spec of the request, in the order
\* of the specs; the k-th has the id made of the id of the series and k, and
\* the source of the k-th spec.
EpisodesFollowSpecs ==
  [][(variant = "mem" /\ last'.op = "createSeries" /\ last'.status = 200)
       => \A req \in Arrived("createSeries"), body \in BodyInputs :
            (/\ pending' = Taken(req)
             /\ postSeriesMem(series, nextSeriesId, files, req.files,
                              body.pseudo, body.name, body.episodes).series = series')
              => LET s == series'[last'.at]
                     specs == body.episodes.specs
                 IN /\ Len(s.episodes) = Len(specs)
                    /\ \A k \in 1..Len(specs) :
                         /\ s.episodes[k].id = <<s.id, k>>
                         /\ s.episodes[k].src =
                              IF specs[k].hasFile
                                THEN UploadsPath(req.files[findFile(req.files, specs[k].index)].filename)
                                ELSE specs[k].src]_vars

\* C15, its case: a series was created with two episodes, the second from
\* an uploaded file.
CreatedWithTwoEpisodes ==
  /\ variant = "mem"
  /\ last.op = "createSeries"
  /\ last.status = 200
  /\ Len(series[last.at].episodes) = 2
  /\ startsWithUploads(series[last.at].episodes[2].src)

\* C17: a call answered 400 or 403 had no file stored for it before its
\* handler ran, and leaves the collection as it was.
RejectedBeforeStaging ==
  [][last'.status \in {400, 403}
       => /\ \A req \in BagToSet(pending) : ~Consumed(req)
          /\ series' = series]_vars

\* some series of the collection S has '/uploads/<f>' as its cover
Covers(S, f) == \E i \in 1..Len(S) : S[i].image = UploadsPath(f)

\* C16: an update-cover-image call on a series id that does not exist is
\* answered 404 and changes nothing; on an existing series it is answered
\* 200, writes the collection and then removes the file of the previous
\* cover, when that cover was an uploaded file and is no cover any more.
CoverReplacedAndReleased ==
  [][last'.op = "updateImage"
       => \/ /\ last'.status = 404
             /\ series' = series /\ files' = files /\ disk' = disk
          \/ /\ last'.status = 200
             /\ disk' = writeJson(series')
             /\ LET old == series[last'.at].image
                IN (startsWithUploads(old) /\ old.name \in files /\ ~Covers(series', old.name))
                     => (old.name \notin files' /\ last'.fx = <<"write", "unlink">>)]_vars

\* C18: a list-series read answers the collection as the calls answered
\* before it left it, whole.
ReadSeesCommit ==
  [][last'.op = "listSeries" => seen' = series]_vars

\* C18, its case: a read right after calls that created a series with an
\* episode (in-memory) or with a cover (file-based).
ReadAfterMutation ==
  /\ last.op = "listSeries"
  /\ Len(seen) > 0
  /\ \/ variant = "mem" /\ EpisodeCount(seen) > 0
     \/ variant = "file" /\ seen[1].image # NoImage

\* C19: in the file-based variant, where the administrator is the user
\* named ADMIN_USERNAME, all the tokens that pass isAdmin were issued for
\* one and the same user record.
SingleAdministrator ==
  variant = "file" =>
    \A t1, t2 \in tokens : (isAdmin(t1) /\ isAdmin(t2)) => t1.for = t2.for

\* C20: the user store never holds two records with the same username,
\* compared after lower-casing in the file-based variant and exactly in the
\* in-memory variant.
UsernameUniqueness ==
  \A i, j \in 1..Len(users) :
    i # j => IF variant = "file"
               THEN toLowerCase(users[i].username) # toLowerCase(users[j].username)
               ELSE users[i].username # users[j].username

\* C21: in the file-based variant, the user record of every register call
\* that was answered a token is in the persisted user store afterwards,
\* whatever other registrations ran at the same time (a token of a login is
\* issued for a record that a register call stored).
RegisteredUsersPersist ==
  variant = "file" =>
    \A t \in tokens : \E i \in 1..Len(users) : users[i] = t.for

====
